---- MODULE Spec2Model ----
(***************************************************************************)
(* The "Build and Upload Artifacts" workflow (src/unnamed/part_000) as a   *)
(* state machine.  A push on a filtered branch creates a workflow run.     *)
(* The run belongs to the workflow-level concurrency group "pages": at     *)
(* most one run of the group is in progress, at most one is pending, a     *)
(* newer run replaces the pending one, and an in-progress run is never     *)
(* cancelled.  A run that owns the group executes job `build` (image       *)
(* build, the two npm stages joined by &&, the two artifact uploads) and   *)
(* then job `deploy` (needs: build).                                       *)
(***************************************************************************)
EXTENDS Integers, Sequences, FiniteSets, TLC

VARIABLES status, permits, queue, results, matched, error, url, nextRun, rejected,
          branch, detail, invoked, pages, site, uploaded, work,
          base, tag, cache, envs, seen

\* the variables of the image build and of the stage environments
envVars == <<base, tag, cache, envs, seen>>

vars == <<status, permits, queue, results, matched, error, url, nextRun, rejected,
          branch, detail, invoked, pages, site, uploaded, work, envVars>>

\* ---------------------------------------------------------------- bounds
MaxRuns == 3
MaxRejected == 1
MaxExit == 1
MaxTag == 2
MaxEnvs == 2

Runs == 1..MaxRuns
ExitCodes == 0..MaxExit

\* ------------------------------------------------------ workflow constants
\* refs a push may carry: the filtered branch and another one
Refs == {"main", "feature/x"}
\* on.push.branches
BranchesAny == Refs
Branches == {"main"}
\* concurrency.group
Group(r) == "pages"
\* concurrency.cancel-in-progress
CancelInProgressOn == TRUE
CancelInProgress == FALSE
\* the commands of the build step, joined by && inside bash -c
Stages == <<"install", "build:prod">>
\* the path patterns of the "Upload artifacts" step
Patterns == {"dist", "pkg"}
\* the directory tarred by "Upload static files as pages artifact"
PagesPath == "dist"
\* what a pattern's directory can look like when the build step has ended
DirStates == {"missing", "empty", "files"}

States == {"None", "Pending", "Provisioning", "Executing", "Collecting",
           "AwaitingGate", "Publishing", "Succeeded", "Failed", "Cancelled"}
Terminal == {"Succeeded", "Failed", "Cancelled"}
Errors == {"none", "ProvisionError", "StageError", "CollectionError", "PublishError"}

\* ------------------------------------------------------------- helpers
Range(s) == {s[i] : i \in 1..Len(s)}

\* Some run of r's concurrency group is in progress.
BusyOpen(P, r) == FALSE
Busy(P, r) == \E h \in P : Group(h) = Group(r)

\* A queued run starts only once it owns its concurrency group.
MayStartAny(P, r) == TRUE
MayStart(P, r) == r \in P

\* The pending slot of a group after run r queues: r replaces whatever was
\* pending in its group ("skipping runs queued between the run in-progress
\* and latest queued").
EnqueueFifo(q, r) == Append(q, r)
EnqueueLifo(q, r) == <<r>> \o q
Enqueue(q, r) == SelectSeq(q, LAMBDA x : Group(x) # Group(r)) \o <<r>>

\* The runs that own the group once run r has completed: r gives the group
\* up and the pending run of the group, if any, takes it.
ReleaseKeep(P, q, r) == P \cup (IF q # <<>> THEN {Head(q)} ELSE {})
ReleaseDrop(P, q, r) == P \ {r}
Release(P, q, r) == (P \ {r}) \cup (IF q # <<>> THEN {Head(q)} ELSE {})

\* `a && b`: the next command runs only if the previous one exited 0.
AndThenAlways(code) == TRUE
AndThen(code) == code = 0

\* The exit statuses recorded when the stages are run from stage i on, where
\* codes[j] is the exit status stage j returns if it is run.
RECURSIVE RunFrom(_, _)
RunFrom(codes, i) ==
    IF i > Len(codes) THEN <<>>
    ELSE IF AndThen(codes[i]) THEN <<codes[i]>> \o RunFrom(codes, i + 1)
    ELSE <<codes[i]>>

RunStages(codes) == RunFrom(codes, 1)

AllSucceeded(res) == Len(res) = Len(Stages) /\ \A i \in 1..Len(res) : res[i] = 0

\* actions/upload-artifact@v4 without if-no-files-found: a pattern that
\* matches nothing is a warning, the step succeeds.
UploadArtifactsOk(fs) == TRUE

\* actions/upload-pages-artifact@v3 tars the directory `path`: it fails only
\* when the directory does not exist.
UploadPagesOk(fs) == fs[PagesPath] # "missing"

\* The names of the patterns that matched at least one file.
Matched(fs) == {p \in Patterns : fs[p] = "files"}

\* The path the failing upload step reports: only the pages upload can fail,
\* on its directory.
FailedPattern(fs) == PagesPath

\* The error a run carries when a step fails in status s.
AttributionFlat(s) == "StageError"
Attribution(s) ==
    CASE s = "Provisioning" -> "ProvisionError"
      [] s = "Executing" -> "StageError"
      [] s = "Collecting" -> "CollectionError"
      [] s = "Publishing" -> "PublishError"
      [] OTHER -> "none"

\* No step has continue-on-error or a retry: the status after a failed step.
AfterFailureRetry(s) == s
AfterFailure(s) == "Failed"

\* actions/deploy-pages deploys the pages artifact uploaded by its own run.
DeployedArtifactFirst(r, pg) ==
    LET have == {x \in DOMAIN pg : pg[x] # "none"}
        x == CHOOSE y \in have : \A z \in have : y <= z
    IN  [run |-> x, content |-> pg[x]]
DeployedArtifact(r, pg) == [run |-> r, content |-> pg[r]]

\* ------------------------------------------- image and stage environments
\* Environment variables are functions from Keys to values; a value is a
\* sequence, <<>> for an unset variable; a PATH entry is <<prefix, rest>>,
\* the prefix being what $HOME expanded to.
Keys == {"PATH", "NODE_ENV", "HOME", "LANG"}
Dockerfiles == {"Dockerfile", "part_001"}
CargoBin(home) == <<IF home = <<>> THEN "" ELSE home[1], "/.cargo/bin">>

\* What FROM node:latest can bring: the base image's environment.  HOME is
\* not an ENV of the image.
BaseEnvs ==
    {[k \in Keys |->
        CASE k = "PATH" -> p
          [] k = "NODE_ENV" -> n
          [] k = "LANG" -> l
          [] OTHER -> <<>>] :
        p \in {<<<<"", "/usr/local/bin">>>>,
               <<<<"", "/usr/local/bin">>, <<"", "/usr/bin">>>>},
        n \in {<<>>, <<"development">>},
        l \in {<<>>, <<"C.UTF-8">>}}

\* ENV PATH=... of the Dockerfile, $HOME and $PATH expanded at build time
\* from the image's ENV: src/Dockerfile (PATH=$PATH:$HOME/.cargo/bin) puts
\* the cargo directory last, part_001 (PATH=$HOME/.cargo/bin:$PATH) first.
ImageEnv(b, file) ==
    [b EXCEPT !["PATH"] =
        IF file = "Dockerfile" THEN @ \o <<CargoBin(b["HOME"])>>
        ELSE <<CargoBin(b["HOME"])>> \o @]

\* The container's environment: the image's ENV, HOME set by the runtime.
ContainerEnv(img) == [img EXCEPT !["HOME"] = IF @ = <<>> THEN <<"/root">> ELSE @]

\* The assignments written before a stage's command, expanded by the shell
\* against the ambient environment: none for npm install, PATH and NODE_ENV
\* for npm run build:prod.
Overrides(stage, amb) ==
    IF Stages[stage] = "build:prod"
    THEN [k \in {"PATH", "NODE_ENV"} |->
            IF k = "PATH" THEN <<CargoBin(amb["HOME"])>> \o amb["PATH"]
            ELSE <<"production">>]
    ELSE [k \in {} |-> <<>>]

\* The environment the stage's command sees.
StageEnvAmbientWins(amb, stage) ==
    [k \in Keys |->
        IF amb[k] # <<>> THEN amb[k]
        ELSE IF k \in DOMAIN Overrides(stage, amb) THEN Overrides(stage, amb)[k]
        ELSE amb[k]]
StageEnv(amb, stage) ==
    [k \in Keys |->
        IF k \in DOMAIN Overrides(stage, amb) THEN Overrides(stage, amb)[k]
        ELSE amb[k]]

\* The toolchain version an image build gets: the cached image if there is
\* one, else whatever node:latest (and rustup's stable) resolve to now.
Resolve(cached, latest) == IF cached # 0 THEN cached ELSE latest

NoSeen == [env |-> 0, stageEnv |-> <<>>]

\* The main workflow model leaves the image variables alone.
EnvIdle ==
    /\ base = [file |-> "Dockerfile", env |-> CHOOSE b \in BaseEnvs : TRUE]
    /\ tag = 1
    /\ cache = 0
    /\ envs = <<>>
    /\ seen = NoSeen

\* ---------------------------------------------------------------- state
NoCalls == [provision |-> 0, execute |-> 0, collect |-> 0, pages |-> 0, publish |-> 0]
\* The runner's workspace as far as the upload steps have not looked at it.
NoWork == [p \in Patterns |-> "missing"]
NoSite == [run |-> 0, content |-> "none"]

RunsIdle ==
    /\ status = [r \in Runs |-> "None"]
    /\ permits = {}
    /\ queue = <<>>
    /\ results = [r \in Runs |-> <<>>]
    /\ matched = [r \in Runs |-> {}]
    /\ error = [r \in Runs |-> "none"]
    /\ url = [r \in Runs |-> ""]
    /\ nextRun = 1
    /\ rejected = 0
    /\ branch = [r \in Runs |-> ""]
    /\ detail = [r \in Runs |-> ""]
    /\ invoked = [r \in Runs |-> NoCalls]
    /\ uploaded = [r \in Runs |-> FALSE]
    /\ work = [r \in Runs |-> NoWork]
    /\ pages = [r \in Runs |-> "none"]
    /\ site = NoSite

Init == RunsIdle /\ EnvIdle

\* A run reaches a terminal status: the workflow run completes and its
\* concurrency group is handed to the pending run.
Complete(r) ==
    /\ permits' = Release(permits, queue, r)
    /\ queue' = IF queue # <<>> THEN Tail(queue) ELSE queue

\* A step of run r fails while the run is in status s: the remaining steps
\* and jobs are skipped and the run records the step that failed.
Fail(r, what) ==
    /\ status' = [status EXCEPT ![r] = AfterFailure(status[r])]
    /\ error' = [error EXCEPT ![r] = Attribution(status[r])]
    /\ detail' = [detail EXCEPT ![r] = what]
    /\ Complete(r)

\* A push whose ref is not in on.push.branches starts nothing.
TriggerRejected(ref) ==
    /\ ref \notin Branches
    /\ rejected < MaxRejected
    /\ rejected' = rejected + 1
    /\ UNCHANGED <<status, permits, queue, results, matched, error, url, nextRun>>
    /\ UNCHANGED <<branch, detail, invoked, pages, site, uploaded, work, envVars>>

\* A push on a filtered branch creates run nextRun and places it in its
\* concurrency group.
Trigger(ref) ==
    /\ ref \in Branches
    /\ nextRun <= MaxRuns
    /\ LET r == nextRun
           holders == {h \in permits : Group(h) = Group(r)}
           waiting == {w \in Range(queue) : Group(w) = Group(r)}
       IN  IF ~Busy(permits, r)
           THEN /\ permits' = permits \cup {r}
                /\ queue' = queue
                /\ status' = [status EXCEPT ![r] = "Pending"]
           ELSE IF CancelInProgress
           THEN /\ permits' = (permits \ holders) \cup {r}
                /\ queue' = SelectSeq(queue, LAMBDA x : x \notin waiting)
                /\ status' = [x \in Runs |->
                                IF x = r THEN "Pending"
                                ELSE IF x \in holders \cup waiting THEN "Cancelled"
                                ELSE status[x]]
           ELSE /\ permits' = permits
                /\ queue' = Enqueue(queue, r)
                /\ status' = [x \in Runs |->
                                IF x = r THEN "Pending"
                                ELSE IF x \in Range(queue) \ Range(Enqueue(queue, r))
                                     THEN "Cancelled"
                                ELSE status[x]]
    /\ branch' = [branch EXCEPT ![nextRun] = ref]
    /\ nextRun' = nextRun + 1
    /\ UNCHANGED <<results, matched, error, url, rejected>>
    /\ UNCHANGED <<detail, invoked, pages, site, uploaded, work, envVars>>

\* The run owns its concurrency group: job build starts.
Start(r) ==
    /\ status[r] = "Pending"
    /\ MayStart(permits, r)
    /\ status' = [status EXCEPT ![r] = "Provisioning"]
    /\ UNCHANGED <<permits, queue, results, matched, error, url, nextRun, rejected>>
    /\ UNCHANGED <<branch, detail, invoked, pages, site, uploaded, work, envVars>>

\* Checkout, Set up Docker and the image build of `docker compose run --build`.
Provision(r, ok) ==
    /\ status[r] = "Provisioning"
    /\ invoked' = [invoked EXCEPT ![r].provision = @ + 1]
    /\ IF ok
       THEN /\ status' = [status EXCEPT ![r] = "Executing"]
            /\ UNCHANGED <<permits, queue, error, detail>>
       ELSE Fail(r, "")
    /\ UNCHANGED <<results, matched, url, nextRun, rejected>>
    /\ UNCHANGED <<branch, pages, site, uploaded, work, envVars>>

\* bash -c 'npm install && ... npm run build:prod' inside the container.
Execute(r, codes) ==
    /\ status[r] = "Executing"
    /\ invoked' = [invoked EXCEPT ![r].execute = @ + 1]
    /\ results' = [results EXCEPT ![r] = RunStages(codes)]
    /\ IF AllSucceeded(results'[r])
       THEN /\ status' = [status EXCEPT ![r] = "Collecting"]
            /\ UNCHANGED <<permits, queue, error, detail>>
       ELSE Fail(r, Stages[Len(results'[r])])
    /\ UNCHANGED <<matched, url, nextRun, rejected>>
    /\ UNCHANGED <<branch, pages, site, uploaded, work, envVars>>

\* Step "Upload artifacts": the files matching dist/* and pkg/* in the
\* runner's workspace fs are uploaded as build-artifacts.
UploadArtifacts(r, fs) ==
    /\ status[r] = "Collecting"
    /\ ~uploaded[r]
    /\ invoked' = [invoked EXCEPT ![r].collect = @ + 1]
    /\ IF UploadArtifactsOk(fs)
       THEN /\ matched' = [matched EXCEPT ![r] = Matched(fs)]
            /\ uploaded' = [uploaded EXCEPT ![r] = TRUE]
            /\ work' = [work EXCEPT ![r] = fs]
            /\ UNCHANGED <<status, permits, queue, error, detail>>
       ELSE /\ Fail(r, "")
            /\ UNCHANGED <<matched, uploaded, work>>
    /\ UNCHANGED <<results, url, nextRun, rejected>>
    /\ UNCHANGED <<branch, pages, site, envVars>>

\* Step "Upload static files as pages artifact", the last step of job build:
\* the same workspace's dist/ is tarred and uploaded; the runner and its
\* workspace are gone once the job has ended.
UploadPages(r) ==
    /\ status[r] = "Collecting"
    /\ uploaded[r]
    /\ invoked' = [invoked EXCEPT ![r].pages = @ + 1]
    /\ IF UploadPagesOk(work[r])
       THEN /\ status' = [status EXCEPT ![r] = "AwaitingGate"]
            /\ pages' = [pages EXCEPT ![r] = work[r][PagesPath]]
            /\ UNCHANGED <<permits, queue, error, detail>>
       ELSE /\ Fail(r, FailedPattern(work[r]))
            /\ pages' = pages
    /\ work' = [work EXCEPT ![r] = NoWork]
    /\ UNCHANGED <<results, matched, url, nextRun, rejected>>
    /\ UNCHANGED <<branch, site, uploaded, envVars>>

\* Job deploy (needs: build) starts once job build has succeeded.
StartDeploy(r) ==
    /\ status[r] = "AwaitingGate"
    /\ status' = [status EXCEPT ![r] = "Publishing"]
    /\ UNCHANGED <<permits, queue, results, matched, error, url, nextRun, rejected>>
    /\ UNCHANGED <<branch, detail, invoked, pages, site, uploaded, work, envVars>>

\* The step of job deploy has ended successfully for run r: it has set its
\* output page_url.
Deployed(r) == url[r] # ""

\* Step "Deploy to GitHub Pages" (actions/deploy-pages@v4).  On success the
\* deployment is live and the step outputs page_url; the run is still in
\* progress and still owns its concurrency group.  A failed step changes
\* nothing outside the run: the job and the run fail with it.
Publish(r, ok) ==
    /\ status[r] = "Publishing"
    /\ ~Deployed(r)
    /\ invoked' = [invoked EXCEPT ![r].publish = @ + 1]
    /\ IF ok
       THEN /\ url' = [url EXCEPT ![r] = "page_url"]
            /\ site' = DeployedArtifact(r, pages)
            /\ UNCHANGED <<status, permits, queue, error, detail>>
       ELSE /\ Fail(r, "")
            /\ url' = url
            /\ site' = site
    /\ UNCHANGED <<results, matched, nextRun, rejected>>
    /\ UNCHANGED <<branch, pages, uploaded, work, envVars>>

\* Job deploy has ended after a successful step: the workflow run concludes
\* and its concurrency group is handed over.
Conclude(r) ==
    /\ status[r] = "Publishing"
    /\ Deployed(r)
    /\ status' = [status EXCEPT ![r] = "Succeeded"]
    /\ Complete(r)
    /\ UNCHANGED <<results, matched, error, url, nextRun, rejected>>
    /\ UNCHANGED <<branch, detail, invoked, pages, site, uploaded, work, envVars>>

RunStep(r) ==
    \/ Start(r)
    \/ \E ok \in BOOLEAN : Provision(r, ok)
    \/ \E codes \in [1..Len(Stages) -> ExitCodes] : Execute(r, codes)
    \/ \E fs \in [Patterns -> DirStates] : UploadArtifacts(r, fs)
    \/ UploadPages(r)
    \/ StartDeploy(r)
    \/ \E ok \in BOOLEAN : Publish(r, ok)
    \/ Conclude(r)

Next ==
    \/ \E ref \in Refs : Trigger(ref)
    \/ \E ref \in Refs : TriggerRejected(ref)
    \/ \E r \in Runs : Start(r)
    \/ \E r \in Runs, ok \in BOOLEAN : Provision(r, ok)
    \/ \E r \in Runs, codes \in [1..Len(Stages) -> ExitCodes] : Execute(r, codes)
    \/ \E r \in Runs, fs \in [Patterns -> DirStates] : UploadArtifacts(r, fs)
    \/ \E r \in Runs : UploadPages(r)
    \/ \E r \in Runs : StartDeploy(r)
    \/ \E r \in Runs, ok \in BOOLEAN : Publish(r, ok)
    \/ \E r \in Runs : Conclude(r)

Spec == Init /\ [][Next]_vars

\* A runner is always eventually available: every enabled step of a run is
\* eventually taken.  Pushes are external and carry no fairness.
FairSpec == Spec /\ \A r \in Runs : WF_vars(RunStep(r))

\* ------------------------------------------------ provisioning in isolation
runVars == <<status, permits, queue, results, matched, error, url, nextRun, rejected,
             branch, detail, invoked, pages, site, uploaded, work>>

EnvInit ==
    /\ RunsIdle
    /\ base \in [file : Dockerfiles, env : BaseEnvs]
    /\ tag = 1
    /\ cache = 0
    /\ envs = <<>>
    /\ seen = NoSeen

\* Upstream repoints node:latest (and rustup's stable channel) to a newer
\* release.
TagMoves ==
    /\ tag < MaxTag
    /\ tag' = tag + 1
    /\ UNCHANGED <<base, cache, envs, seen, runVars>>

\* runs-on: a job gets a fresh runner, without cached images.
FreshRunner ==
    /\ cache # 0
    /\ cache' = 0
    /\ UNCHANGED <<base, tag, envs, seen, runVars>>

\* docker compose run --build with the same Dockerfile: provision(spec).
ProvisionEnv ==
    /\ Len(envs) < MaxEnvs
    /\ LET v == Resolve(cache, tag)
       IN  /\ envs' = Append(envs, [toolchain |-> v,
                                     vars |-> ContainerEnv(ImageEnv(base.env, base.file))])
           /\ cache' = v
    /\ UNCHANGED <<base, tag, seen, runVars>>

\* The stages are run in provisioned environment i.
RunInEnv(i) ==
    /\ i \in 1..Len(envs)
    /\ seen' = [env |-> i,
                stageEnv |-> [s \in 1..Len(Stages) |-> StageEnv(envs[i].vars, s)]]
    /\ UNCHANGED <<base, tag, cache, envs, runVars>>

EnvNext ==
    \/ TagMoves
    \/ FreshRunner
    \/ ProvisionEnv
    \/ \E i \in 1..MaxEnvs : RunInEnv(i)

EnvSpec == EnvInit /\ [][EnvNext]_vars

TypeOK ==
    /\ status \in [Runs -> States]
    /\ permits \subseteq Runs
    /\ queue \in Seq(Runs)
    /\ \A r \in Runs : results[r] \in Seq(ExitCodes) /\ Len(results[r]) <= Len(Stages)
    /\ matched \in [Runs -> SUBSET Patterns]
    /\ error \in [Runs -> Errors]
    /\ url \in [Runs -> {"", "page_url"}]
    /\ nextRun \in 1..(MaxRuns + 1)
    /\ rejected \in 0..MaxRejected
    /\ branch \in [Runs -> {""} \cup Refs]
    /\ detail \in [Runs -> {""} \cup Range(Stages) \cup Patterns]
    /\ \A r \in Runs : \A k \in DOMAIN invoked[r] : invoked[r][k] \in 0..1
    /\ pages \in [Runs -> {"none"} \cup DirStates]
    /\ uploaded \in [Runs -> BOOLEAN]
    /\ work \in [Runs -> [Patterns -> DirStates]]
    /\ site.run \in 0..MaxRuns /\ site.content \in {"none"} \cup DirStates

\* ------------------------------------------------------------ properties
InProgress == {"Provisioning", "Executing", "Collecting", "AwaitingGate", "Publishing"}
Waiting(r) == status[r] = "Pending" /\ r \notin permits
Created == {r \in Runs : status[r] # "None"}

\* C1 Mutual exclusion: at most one run of a concurrency group holds the
\* permit, and at most one run of the group is between its start and its
\* completion, however many runs were triggered.
C1_MutualExclusion ==
    /\ \A a, b \in permits : Group(a) = Group(b) => a = b
    /\ \A a, b \in Runs :
          (status[a] \in InProgress /\ status[b] \in InProgress /\ Group(a) = Group(b))
              => a = b

C1_Witness ==
    \E a, b \in Runs :
        /\ a # b
        /\ a \in permits /\ status[a] \in InProgress
        /\ Waiting(b)
        /\ Cardinality(Created) >= 3

\* C2 No preemption: a run that is Publishing keeps its status, its permit
\* and what its deploy step has done in every step, except the step of its
\* own publish outcome (its deploy step failing, or the run concluding after
\* the deployment), which takes it to Failed or Succeeded; a push never
\* changes it, also not between the deployment and the run's conclusion.
C2_NoPreemption ==
    [][\A a \in Runs :
          status[a] = "Publishing" =>
              \/ /\ status'[a] = "Publishing" /\ a \in permits'
                 /\ Deployed(a) => (Deployed(a)' /\ site' = site)
              \/ /\ status'[a] = "Failed"
                 /\ Publish(a, FALSE)
              \/ /\ status'[a] = "Succeeded"
                 /\ Conclude(a)]_vars

C2_Witness ==
    \E a, b \in Runs :
        /\ a < b
        /\ status[a] = "Publishing" /\ a \in permits
        /\ Deployed(a) /\ site.run = a
        /\ b \in Range(queue)

\* C3 Guaranteed release: no run in a terminal status holds the permit; a run
\* whose publish ends, with either outcome, gives the permit up in the step
\* that takes it out of Publishing; the step in which its deployment goes
\* live does not release the permit; and a run loses the permit only in the
\* step that makes it terminal.
C3_GuaranteedRelease ==
    /\ [](\A r \in Runs : status[r] \in Terminal => r \notin permits)
    /\ [][\A r \in Runs :
             /\ (status[r] = "Publishing" /\ status'[r] # "Publishing")
                    => (r \in permits /\ r \notin permits')
             /\ (~Deployed(r) /\ Deployed(r)')
                    => (r \in permits' /\ status'[r] = "Publishing")
             /\ (r \in permits /\ r \notin permits')
                    => (status[r] \notin Terminal /\ status'[r] \in Terminal)]_vars

C3_Witness ==
    \E a, b \in Runs :
        /\ status[a] = "Succeeded" /\ a \notin permits
        /\ status[b] = "Failed" /\ error[b] = "PublishError" /\ b \notin permits

\* C4 Publish only under a permit: a run whose deploy step is running holds
\* the permit of its group.
C4_PublishUnderPermit ==
    \A r \in Runs : status[r] = "Publishing" => r \in permits

C4_Witness ==
    \E r, p \in Runs :
        /\ p < r
        /\ status[p] \in {"Succeeded", "Failed"}
        /\ status[r] = "Publishing" /\ r \in permits
\* C5 Gate progress (amended): a run waits only while another run holds the
\* permit; the step in which the holder gives the permit up grants it to the
\* waiting run; a run leaves Pending only by starting its build job under the
\* permit or by being replaced by a newer run while it waits; and, with a
\* runner always eventually available, no run stays Pending forever.  So a
\* waiting run that is not replaced is eventually granted the permit and
\* starts Provisioning; it reaches Publishing only if that build succeeds.
C5_GateProgress ==
    /\ [](queue # <<>> => permits # {})
    /\ [][\A h \in permits :
             (h \notin permits' /\ queue # <<>>)
                 => (Head(queue) \in permits' /\ Head(queue) \notin Range(queue'))]_vars
    /\ [][\A r \in Runs :
             (status[r] = "Pending" /\ status'[r] # "Pending")
                 => \/ status'[r] = "Provisioning" /\ r \in permits
                    \/ status'[r] = "Cancelled" /\ r \notin permits]_vars
    /\ \A r \in Runs : []<>(status[r] # "Pending")

C5_Witness ==
    \E p, c, r \in Runs :
        /\ p < c /\ c < r
        /\ status[p] \in {"Succeeded", "Failed"}
        /\ status[c] = "Cancelled"
        /\ status[r] = "Provisioning" /\ r \in permits

\* C5 as stated: the most recently queued waiter (one that no newer run
\* replaces) eventually reaches Publishing.
C5_Original ==
    \A r \in Runs :
        Waiting(r) ~> (status[r] = "Publishing" \/ status[r] = "Cancelled")

\* C6 Queueing order (amended): the permit is granted in the order in which
\* runs requested it (while a run holds the permit every run triggered before
\* it is terminal and every waiting run was triggered after it); at most one
\* run waits, because the step in which a newer run queues cancels the run
\* that was waiting and leaves the newer run as the only waiter; a run leaves
\* the pending slot only by being granted the permit or by being cancelled
\* that way; and, with a runner always eventually available, no run stays in
\* the pending slot forever, so every queued run that no newer run replaces
\* is eventually granted the permit.
C6_GrantOrder ==
    /\ [](\A h \in permits : \A r \in Runs : r < h => status[r] \in Terminal)
    /\ [](\A h \in permits : \A w \in Range(queue) : h < w)
    /\ [](Len(queue) <= 1)
    /\ [][(nextRun' # nextRun /\ queue # <<>>)
             => /\ status'[Head(queue)] = "Cancelled"
                /\ queue' = <<nextRun>>
                /\ permits' = permits]_vars
    /\ [][\A r \in Range(queue) :
             r \notin Range(queue')
                 => \/ r \in permits' /\ status'[r] = "Pending"
                    \/ /\ status'[r] = "Cancelled"
                       /\ nextRun' = nextRun + 1
                       /\ nextRun \in Range(queue')]_vars
    /\ \A r \in Runs : []<>(r \notin Range(queue))

C6_Witness ==
    \E a, b, c \in Runs :
        /\ a < b /\ b < c
        /\ status[a] \in Terminal \ {"Cancelled"}
        /\ status[b] = "Cancelled"
        /\ c \in permits /\ status[c] = "Pending"

\* C6 as stated: a queued run is never dropped or cancelled because a newer
\* run queued behind it.
C6_Original ==
    \A r \in Runs : status[r] # "Cancelled"

\* C7 Skip-intermediate: while a run of group "pages" is in progress at most
\* one run is pending; a push that finds the group busy leaves the in-progress
\* run and its permit untouched, cancels the run that was pending and makes
\* the new run the pending one; a cancelled run was never started and never
\* deploys.
C7_SkipIntermediate ==
    /\ [](Len(queue) <= 1)
    /\ [](\A r \in Runs :
             status[r] = "Cancelled"
                 => (results[r] = <<>> /\ url[r] = "" /\ r \notin permits))
    /\ [][\A r \in Runs :
             /\ status[r] = "Cancelled" => status'[r] = "Cancelled"
             /\ (status[r] # "Cancelled" /\ status'[r] = "Cancelled") => Waiting(r)
             /\ (nextRun' # nextRun /\ permits # {})
                    => /\ permits' = permits
                       /\ queue' = <<nextRun>>
                       /\ status[r] \in InProgress => status'[r] = status[r]
                       /\ r \in Range(queue) => status'[r] = "Cancelled"]_vars

C7_Witness ==
    \E a, b, c \in Runs :
        /\ a < b /\ b < c
        /\ status[a] \in InProgress /\ a \in permits
        /\ status[b] = "Cancelled"
        /\ queue = <<c>>

\* C8 Fail-fast: when the k-th stage is the first whose command exits
\* non-zero, the run records exactly k results, the first k-1 are 0, the k-th
\* is the failing status and the run is Failed; when none fails all stages
\* are recorded; in every state a result is recorded only behind successes.
FirstFail(codes, k) == codes[k] # 0 /\ \A j \in 1..(k - 1) : codes[j] = 0

C8_FailFast ==
    /\ [](\A r \in Runs : \A i \in 1..Len(results[r]) :
             \A j \in 1..(i - 1) : results[r][j] = 0)
    /\ [][\A r \in Runs : \A codes \in [1..Len(Stages) -> ExitCodes] :
             Execute(r, codes) =>
                 /\ \A k \in 1..Len(Stages) :
                       FirstFail(codes, k) =>
                           /\ Len(results'[r]) = k
                           /\ \A j \in 1..(k - 1) : results'[r][j] = 0
                           /\ results'[r][k] = codes[k]
                           /\ status'[r] = "Failed"
                           /\ error'[r] = "StageError"
                 /\ (\A k \in 1..Len(Stages) : codes[k] = 0)
                       => (Len(results'[r]) = Len(Stages) /\ status'[r] = "Collecting")]_vars

C8_Witness ==
    \E a, b \in Runs :
        /\ status[a] = "Failed" /\ Len(results[a]) = 1 /\ results[a][1] # 0
        /\ status[b] = "Failed" /\ Len(results[b]) = 2
        /\ results[b][1] = 0 /\ results[b][2] # 0

\* C9 as stated: a run gets past Collecting only if every pattern (dist/*,
\* pkg/*) matched at least one file.
PastCollecting(r) ==
    \/ status[r] \in {"AwaitingGate", "Publishing", "Succeeded"}
    \/ status[r] = "Failed" /\ error[r] = "PublishError"

C9_Original ==
    \A r \in Runs : PastCollecting(r) => matched[r] = Patterns

\* C10 Coordinator state machine (amended): every change of a run's status is
\* the next step of the chain Pending -> Provisioning -> Executing ->
\* Collecting -> AwaitingGate -> Publishing -> Succeeded, a step to Failed
\* from a non-terminal status, or the step Pending -> Cancelled of a waiting
\* run that a newer run replaces; Succeeded, Failed and Cancelled are never
\* left.
Chain == <<"Pending", "Provisioning", "Executing", "Collecting",
           "AwaitingGate", "Publishing", "Succeeded">>

ChainStep(s, t) == \E i \in 1..(Len(Chain) - 1) : Chain[i] = s /\ Chain[i + 1] = t

C10_StateMachine ==
    [][\A r \in Runs :
          (status[r] # "None" /\ status'[r] # status[r]) =>
              \/ ChainStep(status[r], status'[r])
              \/ status[r] \notin Terminal /\ status'[r] = "Failed"
              \/ Waiting(r) /\ status'[r] = "Cancelled"]_vars

C10_Witness ==
    \E a, b, c \in Runs :
        /\ status[a] = "Succeeded"
        /\ status[b] = "Cancelled"
        /\ status[c] = "Failed"

\* C10 as stated: only chain steps and steps to Failed occur.
C10_Original ==
    [][\A r \in Runs :
          (status[r] # "None" /\ status'[r] # status[r]) =>
              \/ ChainStep(status[r], status'[r])
              \/ status[r] \notin {"Succeeded", "Failed"} /\ status'[r] = "Failed"]_vars

\* A created run that is not terminal and has no enabled step.
Blocked(r) == status[r] \in {"Pending"} \cup InProgress /\ ~ENABLED RunStep(r)

\* C11 Where a run waits (amended): a run is blocked by another run only in
\* Pending, before its Provisioning, and only while another run holds the
\* permit of its group; a run that has started is never blocked again, in
\* particular not at AwaitingGate, and no two runs of a group are in
\* Provisioning, Executing or Collecting at the same time.
C11_BlockedOnlyPending ==
    /\ \A r \in Runs :
          Blocked(r) =>
              /\ status[r] = "Pending" /\ r \notin permits
              /\ \E h \in permits : h # r /\ Group(h) = Group(r) /\ status[h] \notin Terminal
    /\ \A r \in Runs : status[r] \in InProgress => ENABLED RunStep(r)
    /\ \A a, b \in Runs :
          (a # b /\ status[a] \in {"Provisioning", "Executing", "Collecting"})
              => status[b] \notin {"Provisioning", "Executing", "Collecting"}

C11_Witness ==
    \E h, r \in Runs :
        /\ h # r
        /\ status[h] = "Executing" /\ h \in permits
        /\ Blocked(r) /\ status[r] = "Pending"

\* C11 as stated: the only state in which a run is blocked is AwaitingGate.
C11_Original ==
    \A r \in Runs : Blocked(r) => status[r] = "AwaitingGate"

\* C12 Trigger filter (amended): only a push on main creates a run, and each
\* creates exactly one, in Pending; a filtered push changes nothing but the
\* count of filtered pushes; a run leaves Pending only to Provisioning, or to
\* Cancelled when a newer run replaces it while it waits.
C12_TriggerFilter ==
    /\ [](\A r \in Runs : status[r] # "None" => branch[r] = "main")
    /\ [](Cardinality(Created) = nextRun - 1)
    /\ [][rejected' # rejected =>
             UNCHANGED <<status, permits, queue, results, matched, error, url,
                         nextRun, branch, detail, invoked, pages, site,
                         uploaded, work, envVars>>]_vars
    /\ [][nextRun' # nextRun =>
             /\ status[nextRun] = "None" /\ status'[nextRun] = "Pending"
             /\ \A r \in Runs \ {nextRun} : status[r] = "None" => status'[r] = "None"]_vars
    /\ [][\A r \in Runs :
             (status[r] = "Pending" /\ status'[r] # "Pending")
                 => status'[r] \in {"Provisioning", "Cancelled"}]_vars

C12_Witness ==
    \E r \in Runs :
        /\ rejected = 1
        /\ branch[r] = "main" /\ status[r] = "Provisioning"
        /\ Cardinality(Created) = 1

\* C12 as stated: a created run moves from Pending to Provisioning.
C12_Original ==
    [][\A r \in Runs :
          (status[r] = "Pending" /\ status'[r] # "Pending")
              => status'[r] = "Provisioning"]_vars

\* C13 as stated: a run is Succeeded only if provision, every stage, every
\* artifact pattern and publish succeeded, and it then carries a URL.
C13_Original ==
    \A r \in Runs :
        status[r] = "Succeeded" =>
            /\ invoked[r].provision = 1 /\ invoked[r].publish = 1
            /\ results[r] = [i \in 1..Len(Stages) |-> 0]
            /\ matched[r] = Patterns
            /\ error[r] = "none"
            /\ url[r] # ""

\* C14 Failure attribution: a Failed run carries the error of the status it
\* failed from (with the failing stage, whose recorded exit status is not 0,
\* or the path of the failing upload), a run that is not Failed carries none,
\* and the error of a Failed run never changes.
C14_FailureAttribution ==
    /\ [](\A r \in Runs : status[r] = "Failed" <=> error[r] # "none")
    /\ [][\A r \in Runs :
             (status[r] # "Failed" /\ status'[r] = "Failed") =>
                 /\ status[r] = "Provisioning" => error'[r] = "ProvisionError"
                 /\ status[r] = "Executing" =>
                       /\ error'[r] = "StageError"
                       /\ detail'[r] = Stages[Len(results'[r])]
                       /\ results'[r][Len(results'[r])] # 0
                 /\ status[r] = "Collecting" =>
                       (error'[r] = "CollectionError" /\ detail'[r] \in Patterns)
                 /\ status[r] = "Publishing" => error'[r] = "PublishError"
                 /\ status[r] \in {"Provisioning", "Executing", "Collecting", "Publishing"}]_vars
    /\ [][\A r \in Runs :
             status[r] = "Failed" =>
                 (error'[r] = error[r] /\ detail'[r] = detail[r] /\ results'[r] = results[r])]_vars

C14_Witness ==
    \E a, b \in Runs :
        /\ status[a] = "Failed" /\ error[a] = "CollectionError" /\ detail[a] = "dist"
        /\ status[b] = "Failed" /\ error[b] = "StageError" /\ detail[b] = "build:prod"

\* C15 No automatic retry: provision, the stage list, each of the two upload
\* steps of collect and publish are each invoked at most once per run and
\* each stage ran at most once; a run
\* that has failed stays Failed, invokes nothing more and never carries a URL.
C15_NoRetry ==
    /\ [](\A r \in Runs : \A k \in DOMAIN invoked[r] : invoked[r][k] <= 1)
    /\ [](\A r \in Runs : Len(results[r]) <= Len(Stages) * invoked[r].execute)
    /\ [](\A r \in Runs : error[r] # "none" => (status[r] = "Failed" /\ url[r] = ""))
    /\ [][\A r \in Runs :
             status[r] = "Failed" =>
                 (status'[r] = "Failed" /\ invoked'[r] = invoked[r])]_vars

C15_Witness ==
    \E a, b \in Runs :
        /\ status[a] = "Failed" /\ error[a] = "ProvisionError"
        /\ invoked[a] = [provision |-> 1, execute |-> 0, collect |-> 0, pages |-> 0,
                         publish |-> 0]
        /\ status[b] = "Failed" /\ error[b] = "PublishError"
        /\ invoked[b] = [provision |-> 1, execute |-> 1, collect |-> 1, pages |-> 1,
                         publish |-> 1]

\* C16 as stated: an artifact set is never partial, and a CollectionError
\* names the first pattern that matched nothing.
C16_Original ==
    \A r \in Runs :
        /\ pages[r] # "none" => matched[r] = Patterns
        /\ error[r] = "CollectionError" => (detail[r] = "dist" /\ matched[r] = {})

\* C17 Environment merge: the environment of a stage's command is the
\* container's ambient environment with the assignments written before the
\* command on top: npm install sees the ambient environment; npm run
\* build:prod sees NODE_ENV=production and PATH with $HOME/.cargo/bin put
\* before the ambient PATH, whatever the ambient values were, and the ambient
\* value of every other variable.
C17_EnvMerge ==
    seen.env # 0 =>
        LET amb == envs[seen.env].vars
            inst == seen.stageEnv[1]
            prod == seen.stageEnv[2]
        IN  /\ \A k \in Keys : inst[k] = amb[k]
            /\ prod["NODE_ENV"] = <<"production">>
            /\ prod["PATH"] = <<<<amb["HOME"][1], "/.cargo/bin">>>> \o amb["PATH"]
            /\ \A k \in Keys \ {"PATH", "NODE_ENV"} : prod[k] = amb[k]

C17_Witness ==
    /\ seen.env # 0
    /\ envs[seen.env].vars["NODE_ENV"] = <<"development">>
    /\ envs[seen.env].vars["LANG"] = <<"C.UTF-8">>
    /\ seen.stageEnv[2]["NODE_ENV"] = <<"production">>
    /\ seen.stageEnv[2]["LANG"] = <<"C.UTF-8">>

\* C18 as stated: provisioning twice with the same Dockerfile, with or
\* without a cached image, yields the same environment (the same toolchains).
C18_Original ==
    \A i, j \in 1..Len(envs) : envs[i] = envs[j]

\* C19 A failure before publish frees the gate: a run that failed in
\* Provisioning, Executing or Collecting holds no permit and is not in the
\* pending slot; the step in which it fails hands the permit to the waiting
\* run; and whoever waits, waits for a run that has not ended.
PrePublishFailed(r) ==
    status[r] = "Failed" /\ error[r] \in {"ProvisionError", "StageError", "CollectionError"}

C19_FailureFreesGate ==
    /\ [](\A r \in Runs : PrePublishFailed(r) => (r \notin permits /\ r \notin Range(queue)))
    /\ [](\A w \in Runs :
             Waiting(w) => \E h \in permits : status[h] \in {"Pending"} \cup InProgress)
    /\ [][\A r \in Runs :
             (~PrePublishFailed(r) /\ PrePublishFailed(r)') =>
                 /\ r \in permits /\ r \notin permits'
                 /\ queue # <<>> => (permits' = {Head(queue)} /\ queue' = Tail(queue))
                 /\ queue = <<>> => permits' = {}]_vars

C19_Witness ==
    \E a, b \in Runs :
        /\ a < b
        /\ PrePublishFailed(a)
        /\ b \in permits /\ status[b] \in InProgress

\* C20 A run publishes its own artifacts: the step in which run r's deploy
\* step succeeds is taken under r's permit, which r keeps, and makes the
\* target show the pages artifact r collected; the target changes in no
\* other step; a collected artifact is never modified; so the target always
\* shows the artifact of the run that deployed last, which is the newest run
\* that deployed: it is still Publishing under its permit or it is the newest
\* Succeeded run.
C20_OwnArtifacts ==
    /\ [](site.run # 0 =>
             /\ Deployed(site.run)
             /\ \/ status[site.run] = "Succeeded"
                \/ status[site.run] = "Publishing" /\ site.run \in permits
             /\ site.content = pages[site.run]
             /\ \A r \in Runs : Deployed(r) => r <= site.run)
    /\ [](\A r \in Runs :
             /\ status[r] = "Succeeded" => Deployed(r)
             /\ Deployed(r) => (site.run # 0 /\ status[r] \in {"Publishing", "Succeeded"}))
    /\ [][\A r \in Runs :
             /\ (~Deployed(r) /\ Deployed(r)')
                   => /\ status[r] = "Publishing" /\ r \in permits /\ r \in permits'
                      /\ site' = [run |-> r, content |-> pages[r]]
             /\ (status[r] = "Publishing" /\ status'[r] = "Succeeded")
                   => (r \in permits /\ site = [run |-> r, content |-> pages[r]]
                       /\ site' = site)
             /\ pages[r] # "none" => pages'[r] = pages[r]
             /\ uploaded[r] => (uploaded'[r] /\ matched'[r] = matched[r])]_vars
    /\ [][site' # site => \E r \in Runs : ~Deployed(r) /\ Deployed(r)']_vars

C20_Witness ==
    \E a \in Runs :
        /\ a < site.run
        /\ status[a] = "Succeeded"
        /\ pages[a] # pages[site.run]
        /\ site.content = pages[site.run]
        /\ status[site.run] = "Publishing" /\ site.run \in permits
        /\ queue # <<>>
====
